---- MODULE Spec2Model ----
(***************************************************************************)
(* Model of src/flight/modules/SecondaryTelemetry/secondarytelemetry.c:    *)
(* the secondary telemetry module (lines 1-180) and the class              *)
(* RobotInertial of the header robotInertial.hpp appended to that file     *)
(* (lines 182-389).                                                        *)
(*                                                                         *)
(* Vectors are sequences; the source indexes from 0, sequences from 1, so  *)
(* element i of the source is x[i + 1] here.  Index ranges keep the        *)
(* source's half-open form (start, stop).  Numbers are integers: the       *)
(* hundredths of the values they stand for.                                *)
(*                                                                         *)
(* The header declares the seven-argument move_func (lines 269-270); its   *)
(* body is in robotInertial.cpp, which is not among the sources.  A call   *)
(* of it is modelled by what the declaration fixes: the arguments it       *)
(* reads, and the outputs xnew, XNEW_x, XNEW_pert and the private          *)
(* temporaries it may write, with any contents.                            *)
(***************************************************************************)
EXTENDS Integers, Sequences, FiniteSets, TLC

----------------------------------------------------------------------------
(* Dimension accessors, lines 280-294.                                     *)

size == 19

size_control == 6

size_perturbation == 12

mySize == size

\* A plausible slip: the wrong static accessor forwarded.
mySize_control_state == size

mySize_control == size_control

mySize_perturbation == size_perturbation

----------------------------------------------------------------------------
(* State / control / perturbation codec, lines 309-372.                    *)

\* ublas::subrange(x, start, stop) and project(x, range(start, stop)):
\* the elements start .. stop-1 of x.
subrange(x, start, stop) == [k \in 1..(stop - start) |-> x[start + k]]

\* ublas::subrange(x, start, stop) = b: overwrite those elements of x.
assign_subrange(x, start, stop, b) ==
    [i \in 1..Len(x) |-> IF start < i /\ i <= stop THEN b[i - start] ELSE x[i]]

\* The ranges splitState reads, lines 311-316.
SplitRange ==
    [p  |-> <<0, 3>>,   q  |-> <<3, 7>>,   v |-> <<7, 10>>,
     ab |-> <<10, 13>>, wb |-> <<13, 16>>, g |-> <<16, 19>>]

\* A plausible slip: the ranges of ab and wb exchanged in unsplitState.
UnsplitRange_swapped ==
    [p  |-> <<0, 3>>,   q  |-> <<3, 7>>,   v |-> <<7, 10>>,
     ab |-> <<13, 16>>, wb |-> <<10, 13>>, g |-> <<16, 19>>]

\* The ranges unsplitState writes, lines 333-338.
UnsplitRange ==
    [p  |-> <<0, 3>>,   q  |-> <<3, 7>>,   v |-> <<7, 10>>,
     ab |-> <<10, 13>>, wb |-> <<13, 16>>, g |-> <<16, 19>>]

\* The ranges splitControl reads, lines 353-354.
ControlRange == [am |-> <<0, 3>>, wm |-> <<3, 6>>]

\* The ranges splitPert reads, lines 368-371.
PertRange ==
    [an |-> <<0, 3>>, wn |-> <<3, 6>>, ar |-> <<6, 9>>, wr |-> <<9, 12>>]

\* The order of the blocks in the state vector, x = [p q v ab wb g].
StateBlocks == <<"p", "q", "v", "ab", "wb", "g">>

splitState(x) ==
    [b \in DOMAIN SplitRange |-> subrange(x, SplitRange[b][1], SplitRange[b][2])]

\* A plausible slip: ab and wb written to each other's range.
unsplitState_swapped(p, q, v, ab, wb, g, x) ==
    LET x1 == assign_subrange(x,  0, 3, p)
        x2 == assign_subrange(x1, 3, 7, q)
        x3 == assign_subrange(x2, 7, 10, v)
        x4 == assign_subrange(x3, 13, 16, ab)
        x5 == assign_subrange(x4, 10, 13, wb)
    IN  assign_subrange(x5, 16, 19, g)

unsplitState(p, q, v, ab, wb, g, x) ==
    LET x1 == assign_subrange(x,  UnsplitRange.p[1],  UnsplitRange.p[2],  p)
        x2 == assign_subrange(x1, UnsplitRange.q[1],  UnsplitRange.q[2],  q)
        x3 == assign_subrange(x2, UnsplitRange.v[1],  UnsplitRange.v[2],  v)
        x4 == assign_subrange(x3, UnsplitRange.ab[1], UnsplitRange.ab[2], ab)
        x5 == assign_subrange(x4, UnsplitRange.wb[1], UnsplitRange.wb[2], wb)
    IN  assign_subrange(x5, UnsplitRange.g[1], UnsplitRange.g[2], g)

\* A plausible slip: am and wm read from each other's range.
splitControl_swapped(u) ==
    [am |-> subrange(u, 3, 6), wm |-> subrange(u, 0, 3)]

splitControl(u) ==
    [b \in DOMAIN ControlRange |->
        subrange(u, ControlRange[b][1], ControlRange[b][2])]

splitPert(n) ==
    [b \in DOMAIN PertRange |-> subrange(n, PertRange[b][1], PertRange[b][2])]

----------------------------------------------------------------------------
(* Vectors and matrices of a given size.  A matrix is a sequence of rows.  *)

zero_vec(n) == [i \in 1..n |-> 0]

zero_mat(r, c) == [i \in 1..r |-> [j \in 1..c |-> 0]]

fill_mat(r, c, k) == [i \in 1..r |-> [j \in 1..c |-> k]]

----------------------------------------------------------------------------
(* Inputs.                                                                 *)

\* The largest time step.
MaxDt == 1

Dts == 0..MaxDt

\* States [p q v ab wb g] with a unit quaternion; the first is the level
\* scenario x = [0,0,0, 1,0,0,0, 1,0,0, 0,0,0, 0,0,0, 0,0,-9.81].
InitStates ==
    { <<0,0,0>> \o <<1,0,0,0>> \o <<100,0,0>> \o <<0,0,0>> \o <<0,0,0>>
          \o <<0,0,-981>>,
      <<1000,-2000,500>> \o <<0,1,0,0>> \o <<0,-50,20>> \o <<10,0,-5>>
          \o <<0,1,0>> \o <<0,0,-981>>,
      <<5,5,5>> \o <<0,0,-1,0>> \o <<30,40,0>> \o <<0,20,0>> \o <<0,0,0>>
          \o <<10,0,-980>>,
      <<0,70,0>> \o <<-1,0,0,0>> \o <<0,0,0>> \o <<3,-4,5>> \o <<0,0,2>>
          \o <<0,0,-981>> }

\* Controls [am wm]; the first is the scenario's am = [0,0,9.81], wm = 0.
Controls ==
    { <<0,0,981>> \o <<0,0,0>>,
      <<100,-20,900>> \o <<0,1,0>> }

\* Perturbations [an wn ar wr]; the first is the evaluation point n = 0.
Perts ==
    { zero_vec(size_perturbation),
      <<1,-2,3>> \o <<0,1,0>> \o <<4,0,-1>> \o <<0,0,1>> }

\* Vectors for the codec: the states, and one with 19 different elements.
CodecInputs ==
    { [i \in 1..size |-> 100 + i],
      <<0,0,0>> \o <<1,0,0,0>> \o <<100,0,0>> \o <<0,0,0>> \o <<0,0,0>>
          \o <<0,0,-981>> }

\* What an uninitialised matrix may hold after construction, what a read
\* beyond the end of a vector may return, and what the body of move_func
\* may fill a matrix with.
Garbage == {0, 7}

\* What a call of the seven-argument move_func on x may leave in its
\* output vector: x itself, or any other vector of its size.
Xnew(x) == {x} \cup CodecInputs
----------------------------------------------------------------------------
(* State.                                                                  *)

VARIABLES
    state,          \* state.x(), the robot's state vector
    control,        \* control, the control sample
    perturbation,   \* perturbation.x()
    dt_or_dx,       \* the time step
    XNEW_x,         \* Jacobian of the new state w.r.t. the old state
    XNEW_pert,      \* Jacobian of the new state w.r.t. the perturbation
    Idt, Rold, Rdt, QNEW_q, QNEW_qwdt, QWDT_w, QNEW_w, VNEW_q,
                    \* the private temporaries, lines 376-382
    call,           \* the last call of move_func: its arguments, their
                    \* blocks, and what the seven-argument call left in
                    \* its output vector
    codec,          \* the last splitState / unsplitState round trip
    \* The statics of the secondary telemetry module, lines 51-57.
    comPort,                \* the com port id, 0 for none
    taskHandle,             \* "none" until xTaskCreate
    modEnabled,
    activeProtocolHandler,  \* "NULL" or "uavtalk"
    updatePeriod,
    intervalCounts,         \* channel -> uint8_t
    updateIntervals,        \* channel -> uint8_t
    \* What the module acts on.
    callback,       \* updateSettings is connected to the settings object
    baud,           \* the speed set by PIOS_COM_ChangeBaud, 0 before
    handlerPort,    \* the port uavtalkProtocolHandler was initialised
                    \* with, 0 before
    boot,           \* how far MODULE_INITCALL has come
    tpc, ti,        \* the telemetry task: its position and its local i
    obs             \* what has been observed of the module: the values
                    \* returned, the condition of line 71, the calls of
                    \* updateData

scratch == <<Idt, Rold, Rdt, QNEW_q, QNEW_qwdt, QWDT_w, QNEW_w, VNEW_q>>

vars == <<state, control, perturbation, dt_or_dx, XNEW_x, XNEW_pert,
          Idt, Rold, Rdt, QNEW_q, QNEW_qwdt, QWDT_w, QNEW_w, VNEW_q,
          call, codec,
          comPort, taskHandle, modEnabled, activeProtocolHandler,
          updatePeriod, intervalCounts, updateIntervals,
          callback, baud, handlerPort, boot, tpc, ti, obs>>

\* The variables of class RobotInertial and those of the telemetry module.
motion == <<state, control, perturbation, dt_or_dx, XNEW_x, XNEW_pert,
            Idt, Rold, Rdt, QNEW_q, QNEW_qwdt, QWDT_w, QNEW_w, VNEW_q,
            call, codec>>

telemetry == <<comPort, taskHandle, modEnabled, activeProtocolHandler,
               updatePeriod, intervalCounts, updateIntervals,
               callback, baud, handlerPort, boot, tpc, ti, obs>>

\* SECONDARYTELEMETRYSETTINGS_UPDATEINTERVALS_NUMELEM, lines 56-57: the
\* number of update channels.
NUMELEM == 2

Channels == 0..(NUMELEM - 1)

\* uint8_t arithmetic, lines 55-57 and 115.
UINT8_MAX == 255

uint8(n) == n % (UINT8_MAX + 1)

NoObs ==
    [initRet |-> <<>>, startRet |-> <<>>,
     atStart |-> [modEnabled |-> FALSE, comPort |-> 0,
                  activeProtocolHandler |-> "NULL"],
     handlerSet |-> FALSE, unready |-> FALSE, period |-> 0,
     sent |-> [i \in Channels |-> 0]]

\* The statics as the loader zeroes them, lines 51-57, before
\* MODULE_INITCALL runs.
TelemetryInit ==
    /\ comPort = 0
    /\ taskHandle = "none"
    /\ modEnabled = FALSE
    /\ activeProtocolHandler = "NULL"
    /\ updatePeriod = 0
    /\ intervalCounts = [i \in Channels |-> 0]
    /\ updateIntervals = [i \in Channels |-> 0]
    /\ callback = FALSE
    /\ baud = 0
    /\ handlerPort = 0
    /\ boot = "reset"
    /\ tpc = "none"
    /\ ti = 0
    /\ obs = NoObs

NoCall ==
    [op |-> "none", x |-> <<>>, u |-> <<>>, n |-> <<>>, dt |-> 0,
     c |-> splitControl(zero_vec(size_control)),
     e |-> splitPert(zero_vec(size_perturbation)),
     xnew |-> <<>>, ret |-> "none"]

NoCodec == [op |-> "none", x |-> <<>>, s |-> splitState(zero_vec(size)),
            y |-> <<>>]

Init ==
    /\ state \in InitStates
    /\ control = zero_vec(size_control)
    /\ perturbation = zero_vec(size_perturbation)
    /\ dt_or_dx = 0
    /\ XNEW_x = zero_mat(size, size)
    /\ XNEW_pert = zero_mat(size, size_perturbation)
    /\ \E f \in Garbage :
        /\ Idt = fill_mat(3, 3, f)
        /\ Rold = fill_mat(3, 3, f)
        /\ Rdt = fill_mat(3, 3, f)
        /\ QNEW_q = fill_mat(4, 4, f)
        /\ QNEW_qwdt = fill_mat(4, 4, f)
        /\ QWDT_w = fill_mat(4, 3, f)
        /\ QNEW_w = fill_mat(4, 3, f)
        /\ VNEW_q = fill_mat(3, 4, f)
    /\ call = NoCall
    /\ codec = NoCodec
    /\ TelemetryInit


----------------------------------------------------------------------------
(* Operations.                                                             *)

\* The sizes move_func is called with, lines 213 and 280-290.
move_func_pre(x, u, n) ==
    /\ Len(x) = size /\ Len(u) = size_control /\ Len(n) = size_perturbation

\* What a call of the seven-argument move_func, lines 269-270, may write
\* besides its output vector: the two Jacobians, passed by reference, and
\* the private temporaries of lines 376-382.
Body(f) ==
    /\ Idt' = fill_mat(3, 3, f)
    /\ Rold' = fill_mat(3, 3, f)
    /\ Rdt' = fill_mat(3, 3, f)
    /\ QNEW_q' = fill_mat(4, 4, f)
    /\ QNEW_qwdt' = fill_mat(4, 4, f)
    /\ QWDT_w' = fill_mat(4, 3, f)
    /\ QNEW_w' = fill_mat(4, 3, f)
    /\ VNEW_q' = fill_mat(3, 4, f)
    /\ XNEW_x' = fill_mat(size, size, f)
    /\ XNEW_pert' = fill_mat(size, size_perturbation, f)

\* move_func(x, u, n, dt, xnew, XNEW_x, XNEW_pert) called directly on a
\* copy x of the robot's state, with an output vector xnew of the state's
\* size; the control and the perturbation are split by the codec.
MoveFunc7(u, n, dt) ==
    /\ move_func_pre(state, u, n)
    /\ \E r \in Xnew(state), f \in Garbage :
          /\ Body(f)
          /\ call' = [op |-> "move_func7", x |-> state, u |-> u, n |-> n,
                      dt |-> dt, c |-> splitControl(u), e |-> splitPert(n),
                      xnew |-> r, ret |-> "ok"]
    /\ UNCHANGED <<state, control, perturbation, dt_or_dx, codec>>
    /\ UNCHANGED telemetry

\* What state.x() = xnew leaves in state.x(), lines 275-277: xnew is the
\* default-constructed, empty vector, never written (the call on line 276
\* passes x as the output).  A plain vector takes xnew's size 0; a checked
\* vector proxy throws bad_size and keeps its elements; an unchecked proxy
\* reads its 19 elements beyond the end of xnew's storage.
assign_xnew(ret, old, xnew, f) ==
    CASE ret = "resized"  -> xnew
      [] ret = "bad_size" -> old
      [] ret = "garbage"  -> [i \in 1..Len(old) |-> f]

\* The driver stores a control sample, a perturbation and a time step and
\* calls the zero-argument move_func(), lines 272-278.
MoveFunc0(u, n, dt) ==
    /\ move_func_pre(state, u, n)
    /\ control' = u
    /\ perturbation' = n
    /\ dt_or_dx' = dt
    /\ \E r \in Xnew(state), b \in Garbage :
          LET x    == state                                        \* line 273
              xnew == <<>>                                         \* line 275
              x1   == r              \* x after the call on line 276 wrote it
          IN  /\ Body(b)                                           \* line 276
              /\ \E ret \in {"resized", "bad_size", "garbage"},
                    f \in Garbage :
                   /\ ret # "garbage" => f = 0
                   /\ state' = assign_xnew(ret, state, xnew, f)    \* line 277
                   /\ call' = [op |-> "move_func0", x |-> x, u |-> control',
                               n |-> perturbation', dt |-> dt_or_dx',
                               c |-> splitControl(control'),
                               e |-> splitPert(perturbation'),
                               xnew |-> x1, ret |-> ret]
    /\ UNCHANGED codec
    /\ UNCHANGED telemetry

\* splitState(x, p, q, v, ab, wb, g) followed by
\* unsplitState(p, q, v, ab, wb, g, y), y a vector of the state's size.
RoundTrip(x) ==
    /\ LET s == splitState(x)
       IN  codec' = [op |-> "roundtrip", x |-> x, s |-> s,
                     y |-> unsplitState(s.p, s.q, s.v, s.ab, s.wb, s.g,
                                        zero_vec(size))]
    /\ UNCHANGED <<state, control, perturbation, dt_or_dx, XNEW_x, XNEW_pert,
                   scratch, call>>
    /\ UNCHANGED telemetry

Next ==
    \/ \E u \in Controls, n \in Perts, dt \in Dts : MoveFunc7(u, n, dt)
    \/ \E u \in Controls, n \in Perts, dt \in Dts : MoveFunc0(u, n, dt)
    \/ \E x \in CodecInputs : RoundTrip(x)

Spec == Init /\ [][Next]_vars

\* The transition function and the codec applied to the inputs.
NextPropagate ==
    \/ \E u \in Controls, n \in Perts, dt \in Dts : MoveFunc7(u, n, dt)
    \/ \E x \in CodecInputs : RoundTrip(x)

SpecPropagate == Init /\ [][NextPropagate]_vars

\* The robot driven through the zero-argument move_func().
NextDriver ==
    \E u \in Controls, n \in Perts, dt \in Dts : MoveFunc0(u, n, dt)

SpecDriver == Init /\ [][NextDriver]_vars


----------------------------------------------------------------------------
(* The layout as the specification states it, used to read the vectors in  *)
(* the properties below independently of the codec.                        *)

Blk(x, b) ==
    CASE b = "p"  -> SubSeq(x, 1, 3)
      [] b = "q"  -> SubSeq(x, 4, 7)
      [] b = "v"  -> SubSeq(x, 8, 10)
      [] b = "ab" -> SubSeq(x, 11, 13)
      [] b = "wb" -> SubSeq(x, 14, 16)
      [] b = "g"  -> SubSeq(x, 17, 19)

Called7 == call.op = "move_func7"

Called0 == call.op = "move_func0"

ZeroPert == zero_vec(12)

\* x = [0,0,0, 1,0,0,0, 1,0,0, 0,0,0, 0,0,0, 0,0,-9.81]
ScenarioX ==
    <<0,0,0, 1,0,0,0, 100,0,0, 0,0,0, 0,0,0, 0,0,-981>>

----------------------------------------------------------------------------
(* C2: after the zero-argument move_func() returns, state.x() is the       *)
(* 19-element predicted state x_new that the seven-argument move_func      *)
(* computed from the state, control, perturbation and time step before the *)
(* call (XNEW_x and XNEW_pert, passed by reference, hold what that call    *)
(* wrote).                                                                 *)
C2_InPlace ==
    Called0 =>
        /\ Len(state) = 19
        /\ state = call.xnew

----------------------------------------------------------------------------
(* C3: codec round trip.  splitState(x) followed by unsplitState into y    *)
(* gives y == x, element for element.                                      *)
C3_RoundTrip ==
    codec.op = "roundtrip" =>
        /\ Len(codec.y) = Len(codec.x)
        /\ \A i \in 1..19 : codec.y[i] = codec.x[i]

\* A round trip of a vector whose 19 elements all differ.
C3_Witness ==
    /\ codec.op = "roundtrip"
    /\ Cardinality({codec.x[i] : i \in 1..19}) = 19

----------------------------------------------------------------------------
(* C4: state layout.  The blocks p, q, v, ab, wb, g have sizes 3, 4, 3, 3, *)
(* 3, 3; their ranges are contiguous, disjoint and cover 0..18 exactly     *)
(* once; splitState and unsplitState use the same range for each block,    *)
(* and a split block holds the elements of its range.                      *)
C4_Layout ==
    LET sizes == <<3, 4, 3, 3, 3, 3>>
        Lo(R, k) == R[StateBlocks[k]][1]
        Hi(R, k) == R[StateBlocks[k]][2]
        Good(R) ==
            /\ DOMAIN R = {StateBlocks[k] : k \in 1..6}
            /\ \A k \in 1..6 : Hi(R, k) - Lo(R, k) = sizes[k]
            /\ Lo(R, 1) = 0
            /\ \A k \in 1..5 : Lo(R, k + 1) = Hi(R, k)
            /\ Hi(R, 6) = 19
            /\ \A i \in 0..18 :
                  Cardinality({k \in 1..6 : Lo(R, k) <= i /\ i < Hi(R, k)}) = 1
    IN  /\ Good(SplitRange)
        /\ Good(UnsplitRange)
        /\ \A k \in 1..6 : /\ Lo(SplitRange, k) = Lo(UnsplitRange, k)
                           /\ Hi(SplitRange, k) = Hi(UnsplitRange, k)
        /\ codec.op = "roundtrip" =>
              \A b \in DOMAIN SplitRange : codec.s[b] = Blk(codec.x, b)

\* A split whose quaternion block is the elements 3..6 of the vector.
C4_Witness ==
    /\ codec.op = "roundtrip"
    /\ codec.s.q = <<104, 105, 106, 107>>
    /\ codec.s.g = <<117, 118, 119>>

----------------------------------------------------------------------------
(* C7: the accessors return 19, 6 and 12; the virtual accessors return     *)
(* what the static ones do; and these are the numbers of elements the      *)
(* codec addresses in the state, control and perturbation vectors, and the *)
(* sizes of the vectors and Jacobians of a call.                           *)
Addressed(R) ==
    UNION { {i \in 0..30 : R[b][1] <= i /\ i < R[b][2]} : b \in DOMAIN R }

C7_Sizes ==
    /\ size = 19 /\ size_control = 6 /\ size_perturbation = 12
    /\ mySize = size
    /\ mySize_control = size_control
    /\ mySize_perturbation = size_perturbation
    /\ Addressed(SplitRange) = 0..(mySize - 1)
    /\ Addressed(ControlRange) = 0..(mySize_control - 1)
    /\ Addressed(PertRange) = 0..(mySize_perturbation - 1)
    /\ Called7 =>
          /\ Len(call.x) = mySize /\ Len(call.xnew) = mySize
          /\ Len(call.u) = mySize_control
          /\ Len(call.n) = mySize_perturbation
          /\ Len(XNEW_x) = mySize /\ Len(XNEW_x[1]) = mySize
          /\ Len(XNEW_pert) = mySize
          /\ Len(XNEW_pert[1]) = mySize_perturbation

\* A call whose vectors have the three sizes.
C7_Witness ==
    /\ Called7
    /\ Len(call.xnew) = 19 /\ Len(call.u) = 6 /\ Len(call.n) = 12
    /\ call.dt = 1 /\ call.n # ZeroPert

----------------------------------------------------------------------------
(* C8: control and perturbation layout.  splitControl extracts             *)
(* am = u[0..2], wm = u[3..5]; splitPert extracts an = n[0..2],            *)
(* wn = n[3..5], ar = n[6..8], wr = n[9..11]; the ranges of each vector    *)
(* are disjoint and cover it exactly.                                      *)
C8_ControlPertLayout ==
    /\ \A a, b \in DOMAIN ControlRange :
          a # b => Addressed([k \in {a} |-> ControlRange[k]])
                      \cap Addressed([k \in {b} |-> ControlRange[k]]) = {}
    /\ \A a, b \in DOMAIN PertRange :
          a # b => Addressed([k \in {a} |-> PertRange[k]])
                      \cap Addressed([k \in {b} |-> PertRange[k]]) = {}
    /\ Addressed(ControlRange) = 0..5
    /\ Addressed(PertRange) = 0..11
    /\ Called7 =>
          /\ call.c.am = SubSeq(call.u, 1, 3)
          /\ call.c.wm = SubSeq(call.u, 4, 6)
          /\ call.e.an = SubSeq(call.n, 1, 3)
          /\ call.e.wn = SubSeq(call.n, 4, 6)
          /\ call.e.ar = SubSeq(call.n, 7, 9)
          /\ call.e.wr = SubSeq(call.n, 10, 12)

\* A call whose control and perturbation blocks all differ.
C8_Witness ==
    /\ Called7
    /\ call.c.am # call.c.wm
    /\ Cardinality({call.e.an, call.e.wn, call.e.ar, call.e.wr}) = 4

----------------------------------------------------------------------------
(* The secondary telemetry module, lines 41-175.                           *)

\* The speeds of the switch on lines 148-170.
OutputSpeeds == {2400, 4800, 9600, 19200, 38400, 57600, 115200}

\* The largest number of task periods that are counted.
MaxPeriods == 6

\* Values of the settings object: an output speed, an update period and
\* the update intervals, channel 0 drawn from top.
SpeedInputs == {57600, 115200}

PeriodInputs == {50}

IntervalInputs(top) ==
    { f \in [Channels -> top \cup {0, 1}] : \A i \in Channels \ {0} : f[i] \in {0, 1} }

\* The condition of line 71.
StartCondition_always(m, c, h) == TRUE

StartCondition(m, c, h) == m /\ c # 0 /\ h # "NULL"

\* The condition of line 126.
Due_after(count, interval) == count > interval

Due_equal(count, interval) == count = interval

Due(count, interval) == count >= interval

\* updateSettings, lines 138-175, reading speed, period and intervals from
\* the settings object.
updateSettings(speed, period, intervals) ==
    IF modEnabled /\ comPort # 0                              \* line 140
    THEN /\ updatePeriod' = period                            \* line 144
         /\ updateIntervals' = intervals                      \* line 145
         /\ baud' = IF speed \in OutputSpeeds THEN speed ELSE baud
         /\ activeProtocolHandler' = "uavtalk"                \* line 173
         /\ obs' = [obs EXCEPT !.handlerSet = TRUE]
    ELSE UNCHANGED <<updatePeriod, updateIntervals, baud,
                     activeProtocolHandler, obs>>

\* SecondaryTelemetryInitialize, lines 82-99: the port and the module
\* switch are read; an enabled module with a port connects updateSettings
\* to the settings object, any other returns 0 on line 106.
InitializeEnter(port, enabled) ==
    /\ boot = "reset"
    /\ comPort' = port                                        \* line 84
    /\ modEnabled' = enabled                                  \* lines 91-95
    /\ IF modEnabled' /\ comPort' # 0                         \* line 97
       THEN /\ callback' = TRUE                               \* line 99
            /\ boot' = "connected"
            /\ obs' = obs
       ELSE /\ callback' = callback
            /\ boot' = "initialized"
            /\ obs' = [obs EXCEPT !.initRet = <<0>>]          \* line 106
    /\ UNCHANGED <<taskHandle, activeProtocolHandler, updatePeriod,
                   intervalCounts, updateIntervals, baud, handlerPort,
                   tpc, ti>>
    /\ UNCHANGED motion

\* SecondaryTelemetryInitialize, line 100: updateSettings(0).
InitializeUpdate(speed, period, intervals) ==
    /\ boot = "connected"
    /\ updateSettings(speed, period, intervals)
    /\ boot' = "updated"
    /\ UNCHANGED <<comPort, taskHandle, modEnabled, intervalCounts, callback,
                   handlerPort, tpc, ti>>
    /\ UNCHANGED motion

\* SecondaryTelemetryInitialize, lines 101-106: the handler is initialised
\* with the port and 0 is returned.
InitializeHandler ==
    /\ boot = "updated"
    /\ handlerPort' = IF activeProtocolHandler # "NULL"       \* line 101
                      THEN comPort                            \* line 102
                      ELSE handlerPort
    /\ obs' = [obs EXCEPT !.initRet = <<0>>]                  \* line 106
    /\ boot' = "initialized"
    /\ UNCHANGED <<comPort, taskHandle, modEnabled, activeProtocolHandler,
                   updatePeriod, intervalCounts, updateIntervals, callback,
                   baud, tpc, ti>>
    /\ UNCHANGED motion

\* SecondaryTelemetryStart, lines 68-75, called by MODULE_INITCALL after
\* SecondaryTelemetryInitialize.
SecondaryTelemetryStart ==
    /\ boot = "initialized"
    /\ IF StartCondition(modEnabled, comPort, activeProtocolHandler)
       THEN /\ taskHandle' = "SecondTel"                      \* line 72
            /\ tpc' = "delay"
       ELSE UNCHANGED <<taskHandle, tpc>>
    /\ obs' = [obs EXCEPT
                 !.startRet = <<0>>,                          \* line 74
                 !.atStart = [modEnabled |-> modEnabled, comPort |-> comPort,
                              activeProtocolHandler |-> activeProtocolHandler]]
    /\ boot' = "started"
    /\ UNCHANGED <<comPort, modEnabled, activeProtocolHandler, updatePeriod,
                   intervalCounts, updateIntervals, callback, baud,
                   handlerPort, ti>>
    /\ UNCHANGED motion

\* The settings object is set and its callback updateSettings runs, in the
\* event dispatcher, at any point of the module's life after line 99.
SettingsCallback(speed, period, intervals) ==
    /\ callback
    /\ updateSettings(speed, period, intervals)
    /\ UNCHANGED <<comPort, taskHandle, modEnabled, intervalCounts, callback,
                   handlerPort, boot, tpc, ti>>
    /\ UNCHANGED motion

\* telemetryTask, lines 119-123: vTaskDelayUntil returns and the loop over
\* the channels starts.  With count set, the periods are numbered.
TaskWake(count) ==
    /\ tpc = "delay"
    /\ count => obs.period < MaxPeriods
    /\ tpc' = "test"
    /\ ti' = 0                                                \* line 123
    /\ obs' = [obs EXCEPT !.period = IF count THEN @ + 1 ELSE @,
                          !.sent = [i \in Channels |-> 0]]
    /\ UNCHANGED <<comPort, taskHandle, modEnabled, activeProtocolHandler,
                   updatePeriod, intervalCounts, updateIntervals, callback,
                   baud, handlerPort, boot>>
    /\ UNCHANGED motion

\* Where the loop of line 123 goes after channel i.
LoopNext(i) ==
    IF i + 1 < NUMELEM THEN [tpc |-> "test", ti |-> i + 1]
    ELSE [tpc |-> "delay", ti |-> i + 1]

\* telemetryTask, lines 124-125: updateIntervals[i] is read; if it is not
\* zero, intervalCounts[i] is incremented.
TaskTest ==
    /\ tpc = "test"
    /\ IF updateIntervals[ti] # 0                             \* line 124
       THEN /\ intervalCounts' =
                 [intervalCounts EXCEPT ![ti] = uint8(@ + 1)] \* line 125
            /\ tpc' = "compare"
            /\ ti' = ti
       ELSE /\ intervalCounts' = intervalCounts
            /\ tpc' = LoopNext(ti).tpc
            /\ ti' = LoopNext(ti).ti
    /\ UNCHANGED <<comPort, taskHandle, modEnabled, activeProtocolHandler,
                   updatePeriod, updateIntervals, callback, baud,
                   handlerPort, boot, obs>>
    /\ UNCHANGED motion

\* telemetryTask, lines 126-129: updateIntervals[i] is read again; a due
\* channel has its count reset and its data sent by the active handler.
TaskCompare ==
    /\ tpc = "compare"
    /\ IF Due(intervalCounts[ti], updateIntervals[ti])        \* line 126
       THEN /\ intervalCounts' = [intervalCounts EXCEPT ![ti] = 0]
            /\ obs' = [obs EXCEPT                             \* line 128
                         !.sent[ti] = @ + 1,
                         !.unready = @ \/ activeProtocolHandler = "NULL"
                                       \/ handlerPort = 0
                                       \/ handlerPort # comPort]
       ELSE UNCHANGED <<intervalCounts, obs>>
    /\ tpc' = LoopNext(ti).tpc
    /\ ti' = LoopNext(ti).ti
    /\ UNCHANGED <<comPort, taskHandle, modEnabled, activeProtocolHandler,
                   updatePeriod, updateIntervals, callback, baud,
                   handlerPort, boot>>
    /\ UNCHANGED motion

\* The telemetry module alone: RobotInertial is left as constructed.
InitTelemetry ==
    /\ state = ScenarioX
    /\ control = zero_vec(size_control)
    /\ perturbation = zero_vec(size_perturbation)
    /\ dt_or_dx = 0
    /\ XNEW_x = zero_mat(size, size)
    /\ XNEW_pert = zero_mat(size, size_perturbation)
    /\ Idt = zero_mat(3, 3)
    /\ Rold = zero_mat(3, 3)
    /\ Rdt = zero_mat(3, 3)
    /\ QNEW_q = zero_mat(4, 4)
    /\ QNEW_qwdt = zero_mat(4, 4)
    /\ QWDT_w = zero_mat(4, 3)
    /\ QNEW_w = zero_mat(4, 3)
    /\ VNEW_q = zero_mat(3, 4)
    /\ call = NoCall
    /\ codec = NoCodec
    /\ TelemetryInit

\* MODULE_INITCALL, line 109, with the steps enter, update, handler of
\* SecondaryTelemetryInitialize.
ModuleInit(top) ==
    \/ \E port \in {0, 1}, enabled \in BOOLEAN : InitializeEnter(port, enabled)
    \/ \E speed \in SpeedInputs, period \in PeriodInputs,
          intervals \in IntervalInputs(top) :
            InitializeUpdate(speed, period, intervals)
    \/ InitializeHandler
    \/ SecondaryTelemetryStart

\* The module with settings changes at any time.
NextTelemetry ==
    \/ ModuleInit({2})
    \/ \E speed \in SpeedInputs, period \in PeriodInputs,
          intervals \in IntervalInputs({2}) :
            SettingsCallback(speed, period, intervals)
    \/ TaskWake(FALSE)
    \/ TaskTest
    \/ TaskCompare

SpecTelemetry == InitTelemetry /\ [][NextTelemetry]_vars

\* The module with settings that stay as they were read on line 100; the
\* task periods are numbered.
NextSchedule ==
    \/ ModuleInit({2, 3})
    \/ TaskWake(TRUE)
    \/ TaskTest
    \/ TaskCompare

SpecSchedule == InitTelemetry /\ [][NextSchedule]_vars

\* The module with intervals over the whole range of uint8_t, changed at
\* any time.
NextCounters ==
    \/ ModuleInit({UINT8_MAX})
    \/ \E speed \in SpeedInputs, period \in PeriodInputs,
          intervals \in IntervalInputs({UINT8_MAX}) :
            SettingsCallback(speed, period, intervals)
    \/ TaskWake(FALSE)
    \/ TaskTest
    \/ TaskCompare

SpecCounters == InitTelemetry /\ [][NextCounters]_vars

----------------------------------------------------------------------------
\* Initialisation succeeded: the module is enabled, has a port and an
\* active protocol handler.
InitSucceeded == modEnabled /\ comPort # 0 /\ activeProtocolHandler # "NULL"

(* C12: SecondaryTelemetryInitialize and SecondaryTelemetryStart return -1 *)
(* when initialisation failed (the module is not enabled, there is no com  *)
(* port, or no protocol handler is active) and return 0 only on success.   *)
C12_ReturnCodes ==
    /\ obs.initRet # <<>> =>
          obs.initRet = (IF InitSucceeded THEN <<0>> ELSE <<-1>>)
    /\ obs.startRet # <<>> =>
          obs.startRet = (IF taskHandle # "none" THEN <<0>> ELSE <<-1>>)

----------------------------------------------------------------------------
(* C14: the handler is initialised before it is used.  The telemetry task  *)
(* exists only if modEnabled, comPort and activeProtocolHandler were all   *)
(* non-zero at Start; activeProtocolHandler is never NULL again once set;  *)
(* and no updateData(i) is called by the task on a handler that was not    *)
(* initialised with comPort before.                                        *)
C14_HandlerReady ==
    /\ (taskHandle # "none" \/ tpc # "none") =>
          /\ obs.startRet = <<0>>
          /\ obs.atStart.modEnabled
          /\ obs.atStart.comPort # 0
          /\ obs.atStart.activeProtocolHandler # "NULL"
    /\ obs.handlerSet => activeProtocolHandler # "NULL"
    /\ ~obs.unready
    /\ taskHandle # "none" =>
          activeProtocolHandler = "uavtalk" /\ handlerPort = comPort
                                            /\ comPort # 0

\* The task has sent the data of a channel through the handler, after a
\* settings callback changed the port speed read on line 100.
C14_Witness ==
    /\ taskHandle = "SecondTel"
    /\ obs.sent[0] = 1
    /\ updateIntervals[0] = 2
    /\ baud = 57600
    /\ handlerPort = 1 /\ comPort = 1
    /\ obs.handlerSet

----------------------------------------------------------------------------
(* C15: per-channel update schedule.  With updateIntervals[i] constant at  *)
(* k > 0 and intervalCounts[i] starting at 0, the task calls updateData(i) *)
(* on exactly the periods k, 2k, 3k, ..., never twice in a period; with    *)
(* updateIntervals[i] = 0 it never calls updateData(i) and never changes   *)
(* intervalCounts[i]; a channel's counter depends on no other channel.     *)
C15_Schedule ==
    /\ \A i \in Channels : obs.sent[i] <= 1
    /\ tpc = "delay" =>
          \A i \in Channels :
             LET k == updateIntervals[i]
             IN  IF k > 0
                 THEN /\ obs.sent[i] = 1 <=>
                            (obs.period > 0 /\ obs.period % k = 0)
                      /\ intervalCounts[i] = obs.period % k
                 ELSE /\ obs.sent[i] = 0
                      /\ intervalCounts[i] = 0
    /\ \A i \in Channels : updateIntervals[i] = 0 => intervalCounts[i] = 0

\* The end of period 4 with channel 0 sent every second period and the
\* last channel off.
C15_Witness ==
    /\ tpc = "delay"
    /\ obs.period = 4
    /\ updateIntervals[0] = 2
    /\ obs.sent[0] = 1
    /\ intervalCounts[0] = 0
    /\ updateIntervals[NUMELEM - 1] = 0

----------------------------------------------------------------------------
(* C16: interval counters stay bounded under concurrent settings changes.  *)
(* In any interleaving of the task with updateSettings, the increment of   *)
(* line 125 never wraps intervalCounts[i] from 255 to 0, and when the task *)
(* has finished channel i in a period, intervalCounts[i] is 0 or less than *)
(* the value of updateIntervals[i] it compared against on line 126.        *)
C16_CountersBounded ==
    [][ /\ (tpc = "test" /\ tpc' = "compare") =>
              /\ intervalCounts[ti] < UINT8_MAX
              /\ intervalCounts'[ti] = intervalCounts[ti] + 1
        /\ tpc = "compare" =>
              \/ intervalCounts'[ti] = 0
              \/ intervalCounts'[ti] < updateIntervals[ti]
      ]_<<tpc, ti, intervalCounts>>

\* The count of channel 0 has been incremented to 255 and the interval it
\* is about to be compared against has been set to 0 in between.
C16_Witness ==
    /\ tpc = "compare" /\ ti = 0
    /\ intervalCounts[0] = UINT8_MAX
    /\ updateIntervals[0] = 0

====
